---- MODULE Spec2Model ----
(***************************************************************************)
(* Model of upd_parser/parser.py: the table part of parse_upd, the VAT     *)
(* mode detector (_detect_vat_mode) and the cross-validator (_validate),   *)
(* and, on their own, the row functions (_normalize_row, the row loop of   *)
(* _extract_items_from_page, _parse_line_item) and _parse_decimal.         *)
(*                                                                         *)
(* Text.  A Python str is a sequence of one-character strings.  The        *)
(* Cyrillic letters of the source are written in Latin transliteration     *)
(* (the module is ASCII): "KHA" is the Cyrillic capital letter Kha, "NBSP" *)
(* the no-break space U+00A0; <<"b","e","z"," ","N","D","S">> is the       *)
(* source's "bez NDS" (without VAT) literal.                               *)
(*                                                                         *)
(* Numbers.  A Decimal is the integer number of hundredths it denotes      *)
(* (Decimal("1.02") is 102).  A product of two Decimals is therefore in    *)
(* ten-thousandths, and the comparisons below are carried out in that      *)
(* unit, exactly as Decimal arithmetic is exact.                           *)
(***************************************************************************)
EXTENDS Integers, Sequences, FiniteSets, TLC

VARIABLES
    pc,             \* position in parse_upd: "pages", "detect", "validate", "done";
                    \* of a function studied on its own: "call", "returned",
                    \* "raised"
    rows,           \* the rows pdfplumber extracts, all pages, in page-then-row
                    \* order, each by its name in RowIds
    page_of,        \* page_of[k]: the page (1-based) that holds rows[k]
    page_count,     \* len(pdf.pages)
    pg_idx,         \* number of pages the loop of parse_upd has finished
    all_items,      \* parse_upd's all_items
    final_totals,   \* parse_upd's final_totals: <<>> is None, <<t>> the Totals t
    header_runs,    \* pages on which _parse_header ran, in call order
    transfer_runs,  \* pages on which _parse_transfer_section ran, in call order
    doc_items,      \* doc.items
    doc_totals,     \* doc.totals
    doc_vat,        \* doc.vat
    doc_validation, \* doc.validation
    in_row,         \* a table row handed to the row functions (SpecRow)
    in_counter,     \* the item_counter at that row (SpecRow)
    out_cols,       \* <<>>, or <<c>>: _normalize_row(in_row) returned c
    out_step,       \* <<>>, or <<r>>: what one pass of the row loop of
                    \* _extract_items_from_page did with in_row
    out_twins,      \* <<>>, or <<r>>: the results of _parse_line_item on
                    \* in_row and on in_row behind one more leading cell
    in_text,        \* a text handed to _parse_decimal (SpecDecimal)
    out_dec         \* <<>>, or <<d>>: _parse_decimal(in_text) returned d

\* the variables of the function calls studied on their own
fnvars == <<in_row, in_counter, out_cols, out_step, out_twins, in_text,
            out_dec>>

vars == <<pc, rows, page_of, page_count, pg_idx, all_items, final_totals,
          header_runs, transfer_runs, doc_items, doc_totals, doc_vat,
          doc_validation, fnvars>>

----------------------------------------------------------------------------
(* Bounds of the model. *)

\* longest item list handed to _detect_vat_mode / _validate in SpecVat
MaxItems == 2
\* most pages of a document in Spec
MaxPages == 2
\* most table rows of a document (all pages together) in Spec
MaxRows == 3
\* widest row handed to _normalize_row in SpecRow
MaxWidth == 19
\* longest text handed to _parse_decimal in SpecDecimal
MaxText == 4

----------------------------------------------------------------------------
(* Characters and strings. *)

Digits == {"0", "1", "2", "3", "4", "5", "6", "7", "8", "9"}

\* what Python's str.isspace / the regex class \s accept, among the
\* characters of the model
Whitespace == {" ", "NBSP"}

DigitVal(c) ==
    CASE c = "0" -> 0 [] c = "1" -> 1 [] c = "2" -> 2 [] c = "3" -> 3
      [] c = "4" -> 4 [] c = "5" -> 5 [] c = "6" -> 6 [] c = "7" -> 7
      [] c = "8" -> 8 [] c = "9" -> 9

RECURSIVE DigitsToInt(_)
\* int() of a string of digits ("" is rejected by the callers)
DigitsToInt(s) ==
    IF s = <<>> THEN 0
    ELSE 10 * DigitsToInt(SubSeq(s, 1, Len(s) - 1)) + DigitVal(s[Len(s)])

RECURSIVE LStrip(_)
LStrip(s) ==
    IF s # <<>> /\ s[1] \in Whitespace THEN LStrip(Tail(s)) ELSE s

RECURSIVE RStrip(_)
RStrip(s) ==
    IF s # <<>> /\ s[Len(s)] \in Whitespace
    THEN RStrip(SubSeq(s, 1, Len(s) - 1)) ELSE s

\* str.strip()
Strip(s) == LStrip(RStrip(s))

RECURSIVE CollapseWs(_)
\* re.sub(r"\s+", " ", text): every run of whitespace becomes one space
CollapseWs(s) ==
    IF s = <<>> THEN <<>>
    ELSE IF s[1] \in Whitespace
         THEN <<" ">> \o CollapseWs(LStrip(s))
         ELSE <<s[1]>> \o CollapseWs(Tail(s))

\* Python's None, for a cell pdfplumber leaves empty: no text equals it,
\* "NONE" being no character
None == <<"NONE">>

\* _clean: collapse whitespace and trim; a missing or empty text is ""
_clean(text) ==
    IF text = None \/ text = <<>> THEN <<>> ELSE Strip(CollapseWs(text))

\* the end (last index) of the maximal run of digits that starts at index i
RECURSIVE DigitRunEnd(_, _)
DigitRunEnd(s, i) ==
    IF i + 1 <= Len(s) /\ s[i + 1] \in Digits THEN DigitRunEnd(s, i + 1) ELSE i

\* the first index at or after i that holds no whitespace (Len(s)+1 if none)
RECURSIVE SkipWs(_, _)
SkipWs(s, i) ==
    IF i <= Len(s) /\ s[i] \in Whitespace THEN SkipWs(s, i + 1) ELSE i

\* the start indices at which r"(\d+)\s*%" matches
PercentMatches(s) ==
    {i \in 1..Len(s) :
        /\ s[i] \in Digits
        /\ LET j == SkipWs(s, DigitRunEnd(s, i) + 1)
           IN  j <= Len(s) /\ s[j] = "%"}

\* the start indices at which r"(\d+)\s*/\s*\d+" matches
FractionMatches(s) ==
    {i \in 1..Len(s) :
        /\ s[i] \in Digits
        /\ LET j == SkipWs(s, DigitRunEnd(s, i) + 1)
           IN  /\ j <= Len(s) /\ s[j] = "/"
               /\ LET k == SkipWs(s, j + 1)
                  IN  k <= Len(s) /\ s[k] \in Digits}

Min(S) == CHOOSE x \in S : \A y \in S : x <= y

\* the strings the source takes to mean "no VAT":
\* "--", "-", "", "bez NDS", "Bez NDS"
NoVatStrings ==
    { <<"-", "-">>, <<"-">>, <<>>,
      <<"b", "e", "z", " ", "N", "D", "S">>,
      <<"B", "e", "z", " ", "N", "D", "S">> }

\* _parse_vat_rate_percent: "20%" -> 20, "10/110" -> 10, no-VAT strings -> 0
_parse_vat_rate_percent(rate_str) ==
    IF rate_str = <<>> THEN 0
    ELSE LET s == Strip(rate_str)
         IN  IF s \in NoVatStrings THEN 0
             ELSE IF PercentMatches(s) # {}
                  THEN LET i == Min(PercentMatches(s))
                       IN  DigitsToInt(SubSeq(s, i, DigitRunEnd(s, i)))
             ELSE IF FractionMatches(s) # {}
                  THEN LET i == Min(FractionMatches(s))
                       IN  DigitsToInt(SubSeq(s, i, DigitRunEnd(s, i)))
             ELSE 0

RECURSIVE RemoveAll(_, _)
\* s without the characters of the set cs (str.replace(c, "") for each)
RemoveAll(s, cs) ==
    IF s = <<>> THEN <<>>
    ELSE IF s[1] \in cs THEN RemoveAll(Tail(s), cs)
         ELSE <<s[1]>> \o RemoveAll(Tail(s), cs)

\* str.replace(",", ".")
CommaToDot(s) == [i \in 1..Len(s) |-> IF s[i] = "," THEN "." ELSE s[i]]

RECURSIVE KeepNumeric(_)
\* re.sub(r"[^\d.\-]", "", s)
KeepNumeric(s) ==
    IF s = <<>> THEN <<>>
    ELSE IF s[1] \in Digits \cup {".", "-"}
         THEN <<s[1]>> \o KeepNumeric(Tail(s))
         ELSE KeepNumeric(Tail(s))

\* the placeholder tokens of _parse_decimal: "--", "-", "", Cyrillic Kha, "X"
DecimalPlaceholders == { <<"-", "-">>, <<"-">>, <<>>, <<"KHA">>, <<"X">> }

AllDigits(s) == \A i \in 1..Len(s) : s[i] \in Digits

\* the unsigned numerals Decimal() accepts among strings of digits and
\* dots: digits, digits "." [digits], "." digits
IsNumeral(u) ==
    LET dots == {i \in 1..Len(u) : u[i] = "."}
    IN  /\ AllDigits(RemoveAll(u, {"."}))
        /\ RemoveAll(u, {"."}) # <<>>
        /\ Cardinality(dots) <= 1

\* the value, in hundredths, of an unsigned numeral with at most two
\* fractional digits (longer fractions are not Decimals of the model: no
\* value is chosen for them)
NumeralValue(u) ==
    LET dots == {i \in 1..Len(u) : u[i] = "."}
        d    == IF dots = {} THEN Len(u) + 1 ELSE Min(dots)
        ip   == SubSeq(u, 1, d - 1)
        fp   == SubSeq(u, d + 1, Len(u))
    IN  IF Len(fp) = 0 THEN 100 * DigitsToInt(ip)
        ELSE IF Len(fp) = 1 THEN 100 * DigitsToInt(ip) + 10 * DigitsToInt(fp)
        ELSE IF Len(fp) = 2 THEN 100 * DigitsToInt(ip) + DigitsToInt(fp)
        ELSE CHOOSE v \in {} : TRUE

\* _parse_decimal: "10 500,00" -> 10500.00; a placeholder, or a text that
\* Decimal() rejects (InvalidOperation), gives 0
_parse_decimal(text) ==
    IF text = None \/ text = <<>> \/ Strip(text) \in DecimalPlaceholders
    THEN 0
    ELSE LET cleaned == KeepNumeric(CommaToDot(RemoveAll(Strip(text),
                                                         {"NBSP", " "})))
         IN  IF cleaned # <<>> /\ cleaned[1] = "-"
             THEN IF IsNumeral(Tail(cleaned))
                  THEN 0 - NumeralValue(Tail(cleaned)) ELSE 0
             ELSE IF IsNumeral(cleaned) THEN NumeralValue(cleaned) ELSE 0

\* a variant with a slip: an except clause that catches nothing
ExceptClause_Nothing == {}

\* the exceptions the except clause of _parse_decimal catches
ExceptClause == {"InvalidOperation"}

\* the exception that leaves _parse_decimal(text), "" if it returns:
\* Decimal(cleaned) raises InvalidOperation for a text that is no numeral
ParseDecimalRaises(text) ==
    IF text = None \/ text = <<>> \/ Strip(text) \in DecimalPlaceholders
    THEN ""
    ELSE LET cleaned == KeepNumeric(CommaToDot(RemoveAll(Strip(text),
                                                         {"NBSP", " "})))
             unsigned == IF cleaned # <<>> /\ cleaned[1] = "-"
                         THEN Tail(cleaned) ELSE cleaned
         IN  IF IsNumeral(unsigned) \/ "InvalidOperation" \in ExceptClause
             THEN "" ELSE "InvalidOperation"

----------------------------------------------------------------------------
(* Data classes. *)

\* LineItem(...); vat_rate_percent is what _parse_line_item stores beside
\* the raw rate, _parse_vat_rate_percent(vat_rate)
LineItem(row_number, product_code, name, product_type_code, unit_code, unit_name, quantity, unit_price, subtotal, excise, vat_rate, vat_amount, total, country_code, country_name, customs_declaration) ==
    [ row_number          |-> row_number,
      product_code        |-> product_code,
      name                |-> name,
      product_type_code   |-> product_type_code,
      unit_code           |-> unit_code,
      unit_name           |-> unit_name,
      quantity            |-> quantity,
      unit_price          |-> unit_price,
      subtotal            |-> subtotal,
      excise              |-> excise,
      vat_rate            |-> vat_rate,
      vat_rate_percent    |-> _parse_vat_rate_percent(vat_rate),
      vat_amount          |-> vat_amount,
      total               |-> total,
      country_code        |-> country_code,
      country_name        |-> country_name,
      customs_declaration |-> customs_declaration ]

\* Totals(): all zero by default
Totals(subtotal, vat, total) ==
    [subtotal |-> subtotal, vat |-> vat, total |-> total]

DefaultTotals == Totals(0, 0, 0)

\* VATInfo(): empty by default.  detection_reason is the message's
\* template and the numbers formatted into it.
VATInfo(vat_mode, vat_rates, detection_confidence, detection_reason) ==
    [ vat_mode             |-> vat_mode,
      vat_rates            |-> vat_rates,
      detection_confidence |-> detection_confidence,
      detection_reason     |-> detection_reason ]

DefaultVATInfo == VATInfo("", <<>>, "", <<"">>)

\* ValidationResult(): valid, no errors, no warnings by default
ValidationResult(is_valid, errors, warnings) ==
    [is_valid |-> is_valid, errors |-> errors, warnings |-> warnings]

DefaultValidationResult == ValidationResult(TRUE, <<>>, <<>>)

----------------------------------------------------------------------------
(* VAT mode detection. *)

Abs(x) == IF x < 0 THEN 0 - x ELSE x

RECURSIVE SortedSeq(_)
\* sorted(S) for a finite set of integers
SortedSeq(S) ==
    IF S = {} THEN <<>> ELSE <<Min(S)>> \o SortedSeq(S \ {Min(S)})

\* a variant with a slip: the checked set without the quantity test
ItemsWithVat_AnyQuantity(items) ==
    {i \in 1..Len(items) : items[i].vat_rate_percent > 0}

\* items_with_vat of _detect_vat_mode, as the positions of its items
ItemsWithVat(items) ==
    {i \in 1..Len(items) :
        items[i].vat_rate_percent > 0 /\ items[i].quantity > 0}

\* diff_ontop <= tolerance, for one item (in ten-thousandths)
OntopMatch(item) ==
    Abs(item.unit_price * item.quantity - 100 * item.subtotal)
        <= 2 * item.quantity

\* diff_included <= tolerance, for one item (in ten-thousandths)
IncludedMatch(item) ==
    Abs(item.unit_price * item.quantity - 100 * item.total)
        <= 2 * item.quantity

\* a variant with a slip: the tie between the two scores broken toward "included"
DecideMode_TieIncluded(rates, ontop_score, included_score, total_checked) ==
    IF ontop_score = total_checked /\ included_score < total_checked
    THEN VATInfo("ontop", rates, "high", <<"ontop_all", total_checked>>)
    ELSE IF included_score = total_checked /\ ontop_score < total_checked
    THEN VATInfo("included", rates, "high",
                 <<"included_all", total_checked>>)
    ELSE IF ontop_score > included_score
    THEN VATInfo("ontop", rates, "medium",
                 <<"ontop_default", ontop_score, included_score,
                   total_checked>>)
    ELSE VATInfo("included", rates, "medium",
                 <<"included_more", included_score, ontop_score,
                   total_checked>>)

\* the decision of _detect_vat_mode once the scores are counted
DecideMode(rates, ontop_score, included_score, total_checked) ==
    IF ontop_score = total_checked /\ included_score < total_checked
    THEN VATInfo("ontop", rates, "high", <<"ontop_all", total_checked>>)
    ELSE IF included_score = total_checked /\ ontop_score < total_checked
    THEN VATInfo("included", rates, "high",
                 <<"included_all", total_checked>>)
    ELSE IF ontop_score >= included_score
    THEN VATInfo("ontop", rates, "medium",
                 <<"ontop_default", ontop_score, included_score,
                   total_checked>>)
    ELSE VATInfo("included", rates, "medium",
                 <<"included_more", included_score, ontop_score,
                   total_checked>>)

\* a variant with a slip: the no-VAT test without the capitalised and the lower-case "bez NDS"
NoVatRule_DashesOnly(items) ==
    /\ \A i \in 1..Len(items) : items[i].vat_rate_percent = 0
    /\ \A i \in 1..Len(items) : items[i].vat_amount = 0
    /\ \A i \in 1..Len(items) :
           items[i].vat_rate \in { <<"-", "-">>, <<"-">>, <<>> }

\* the no-VAT test of _detect_vat_mode:
\* all_zero_rate and all_zero_vat and no_vat_strings
NoVatRule(items) ==
    /\ \A i \in 1..Len(items) : items[i].vat_rate_percent = 0
    /\ \A i \in 1..Len(items) : items[i].vat_amount = 0
    /\ \A i \in 1..Len(items) : items[i].vat_rate \in NoVatStrings

\* _detect_vat_mode(doc), which reads doc.items only
_detect_vat_mode(items) ==
    IF items = <<>>
    THEN VATInfo("none", <<>>, "low", <<"no_items">>)
    ELSE
    LET rates == SortedSeq({r \in {items[i].vat_rate_percent :
                                      i \in 1..Len(items)} : r > 0})
        checked == ItemsWithVat(items)
        ontop_score ==
            Cardinality({i \in checked : OntopMatch(items[i])})
        included_score ==
            Cardinality({i \in checked : IncludedMatch(items[i])})
        total_checked == Cardinality(checked)
    IN  IF NoVatRule(items)
        THEN VATInfo("none", rates, "high", <<"no_vat">>)
        ELSE IF total_checked = 0
        THEN VATInfo("none", rates, "low", <<"no_checked_items">>)
        ELSE DecideMode(rates, ontop_score, included_score, total_checked)

----------------------------------------------------------------------------
(* Validation.  A message (an error or a warning) is modelled by its       *)
(* template (kind), the position in doc.items of the item it is about (0   *)
(* for a document-level message) and the numbers formatted into it.        *)

Msg(kind, item, args) == [kind |-> kind, item |-> item, args |-> args]

RECURSIVE SumOf(_, _)
\* sum(i.<field> for i in items)
SumOf(items, field) ==
    IF items = <<>> THEN 0 ELSE items[1][field] + SumOf(Tail(items), field)

\* the guard of the item-level price*quantity check
ItemMathGuard(item) == item.quantity # 0 /\ item.unit_price # 0

\* a variant with a slip: the item-level tolerance taken as 0.02 * quantity
ItemMathWarning_PerQuantity(items, i) ==
    LET item == items[i]
        expected == item.quantity * item.unit_price
        diff == Abs(expected - 100 * item.subtotal)
    IN  IF ItemMathGuard(item) /\ diff > 2 * item.quantity
        THEN <<Msg("item_math", i,
                   <<item.row_number, expected, item.subtotal, diff>>)>>
        ELSE <<>>

\* item-level math check: the warning for item i, if any
ItemMathWarning(items, i) ==
    LET item == items[i]
        expected == item.quantity * item.unit_price
        diff == Abs(expected - 100 * item.subtotal)
    IN  IF ItemMathGuard(item) /\ diff > 200
        THEN <<Msg("item_math", i,
                   <<item.row_number, expected, item.subtotal, diff>>)>>
        ELSE <<>>

\* the guard of one document-level sum check: doc.items and doc.totals.<f>
SumGuard(items, declared) == items # <<>> /\ declared # 0

\* a variant with a slip: the document-level tolerance taken as 0.5
SumError_Tolerance50(kind, items, field, declared) ==
    LET sum == SumOf(items, field)
        diff == Abs(sum - declared)
    IN  IF SumGuard(items, declared) /\ diff > 50
        THEN <<Msg(kind, 0, <<sum, declared, diff>>)>>
        ELSE <<>>

\* one document-level sum check: the error, if any
SumError(kind, items, field, declared) ==
    LET sum == SumOf(items, field)
        diff == Abs(sum - declared)
    IN  IF SumGuard(items, declared) /\ diff > 5
        THEN <<Msg(kind, 0, <<sum, declared, diff>>)>>
        ELSE <<>>

\* subtotal + vat = total of the declared totals: the warning, if any
TotalsWarning(totals) ==
    LET expected_total == totals.subtotal + totals.vat
        diff == Abs(expected_total - totals.total)
    IN  IF totals.subtotal # 0 /\ totals.total # 0 /\ diff > 5
        THEN <<Msg("totals_math", 0,
                   <<totals.subtotal, totals.vat, expected_total,
                     totals.total>>)>>
        ELSE <<>>

\* the test that selects items_with_vat in the "none" branch of _validate
HasVatAmount(item) == item.vat_amount > 0

\* mode "none": the errors
NoneErrors(items, totals) ==
    LET items_with_vat == {i \in 1..Len(items) : HasVatAmount(items[i])}
    IN  (IF items_with_vat # {}
         THEN <<Msg("none_items_with_vat", 0,
                    <<Cardinality(items_with_vat)>>)>>
         ELSE <<>>)
        \o
        (IF /\ totals.subtotal # 0 /\ totals.total # 0
            /\ Abs(totals.subtotal - totals.total) > 5
         THEN <<Msg("none_totals", 0, <<totals.subtotal, totals.total>>)>>
         ELSE <<>>)

\* the guard of both per-item checks of mode "ontop"
OntopGuard(item) == item.vat_rate_percent > 0 /\ item.subtotal > 0

\* mode "ontop", first loop: subtotal + vat = total, per item
OntopSumWarning(items, i) ==
    LET item == items[i]
        expected == item.subtotal + item.vat_amount
        diff == Abs(expected - item.total)
    IN  IF OntopGuard(item) /\ diff > 2
        THEN <<Msg("ontop_sum", i,
                   <<item.row_number, item.subtotal, item.vat_amount,
                     expected, item.total>>)>>
        ELSE <<>>

\* a variant with a slip: the VAT-amount tolerance of mode "ontop" taken as a flat 0.02
OntopVatWarning_Flat(items, i) ==
    LET item == items[i]
        expected_vat == item.subtotal * item.vat_rate_percent
        diff == Abs(expected_vat - 100 * item.vat_amount)
    IN  IF OntopGuard(item) /\ diff > 200
        THEN <<Msg("ontop_vat", i,
                   <<item.row_number, item.subtotal, item.vat_rate_percent,
                     expected_vat, item.vat_amount>>)>>
        ELSE <<>>

\* mode "ontop", second loop: vat = subtotal * rate / 100, per item
\* (expected_vat and the tolerance in ten-thousandths)
OntopVatWarning(items, i) ==
    LET item == items[i]
        expected_vat == item.subtotal * item.vat_rate_percent
        diff == Abs(expected_vat - 100 * item.vat_amount)
    IN  IF OntopGuard(item) /\ diff > 2 * item.quantity
        THEN <<Msg("ontop_vat", i,
                   <<item.row_number, item.subtotal, item.vat_rate_percent,
                     expected_vat, item.vat_amount>>)>>
        ELSE <<>>

\* mode "included": total - vat = subtotal, per item
IncludedWarning(items, i) ==
    LET item == items[i]
        expected_subtotal == item.total - item.vat_amount
        diff == Abs(expected_subtotal - item.subtotal)
    IN  IF item.vat_rate_percent > 0 /\ item.total > 0 /\ diff > 2
        THEN <<Msg("included_sum", i,
                   <<item.row_number, item.total, item.vat_amount,
                     expected_subtotal, item.subtotal>>)>>
        ELSE <<>>

\* a variant with a slip: the confidence warning given for "low" only
WarnConfidences_LowOnly == {"low"}

\* the confidences that make _validate warn
WarnConfidences == {"low", "medium"}

\* the confidence warning, which quotes vat.detection_reason
ConfidenceWarning(vat) ==
    IF vat.detection_confidence \in WarnConfidences
    THEN <<[kind |-> "confidence", item |-> 0,
            args |-> <<vat.detection_confidence>>,
            reason |-> vat.detection_reason]>>
    ELSE <<>>

\* a variant with a slip: validity that also asks for no warnings
IsValid_NoWarnings(errors, warnings) == Len(errors) = 0 /\ Len(warnings) = 0

\* result.is_valid = len(result.errors) == 0
IsValid(errors, warnings) == Len(errors) = 0

\* what the body of one per-item loop of _validate appends for item i
LoopBody(loop, items, i) ==
    CASE loop = "item_math"    -> ItemMathWarning(items, i)
      [] loop = "ontop_sum"    -> OntopSumWarning(items, i)
      [] loop = "ontop_vat"    -> OntopVatWarning(items, i)
      [] loop = "included_sum" -> IncludedWarning(items, i)

RECURSIVE Loop(_, _, _)
\* for item in doc.items, from position i on: the messages appended
Loop(loop, items, i) ==
    IF i > Len(items) THEN <<>>
    ELSE LoopBody(loop, items, i) \o Loop(loop, items, i + 1)

\* _validate(doc), which reads doc.items, doc.totals and doc.vat
_validate(items, totals, vat) ==
    LET errors ==
            SumError("sum_subtotal", items, "subtotal", totals.subtotal)
            \o SumError("sum_vat", items, "vat_amount", totals.vat)
            \o SumError("sum_total", items, "total", totals.total)
            \o (IF vat.vat_mode = "none"
                THEN NoneErrors(items, totals) ELSE <<>>)
        warnings ==
            Loop("item_math", items, 1)
            \o TotalsWarning(totals)
            \o (IF vat.vat_mode = "ontop"
                THEN Loop("ontop_sum", items, 1) \o Loop("ontop_vat", items, 1)
                ELSE IF vat.vat_mode = "included"
                THEN Loop("included_sum", items, 1)
                ELSE <<>>)
            \o ConfidenceWarning(vat)
    IN  ValidationResult(IsValid(errors, warnings), errors, warnings)

----------------------------------------------------------------------------
(* The table part: row classification, column normalisation, builders.     *)
(* A row is a sequence of cells; a cell is a text or None.  A fixed phrase *)
(* of the source that the classifiers search for is one character of the   *)
(* model, named by its transliteration ("Vsego k oplate").                 *)

\* whether the text kw occurs in the text s (Python's kw in s)
IsSubstring(kw, s) ==
    \E i \in 0..(Len(s) - Len(kw)) : SubSeq(s, i + 1, i + Len(kw)) = kw

\* the cells a classifier keeps (for c in row if c), cleaned
CleanedCells(row) ==
    LET kept == SelectSeq(row, LAMBDA c : c # None /\ c # <<>>)
    IN  [i \in 1..Len(kept) |-> _clean(kept[i])]

RECURSIVE JoinCells(_)
\* " ".join(cells)
JoinCells(cells) ==
    IF cells = <<>> THEN <<>>
    ELSE IF Len(cells) = 1 THEN cells[1]
    ELSE cells[1] \o <<" ">> \o JoinCells(Tail(cells))

RowText(row) == JoinCells(CleanedCells(row))

\* str.lower(), on the characters of the model
LowerChar(c) ==
    CASE c = "Vsego k oplate" -> "vsego k oplate"
      [] c = "VSEGO K OPLATE" -> "vsego k oplate"
      [] c = "A" -> "a"
      [] c = "B" -> "b"
      [] c = "N" -> "n"
      [] c = "D" -> "d"
      [] c = "S" -> "s"
      [] c = "X" -> "x"
      [] c = "KHA" -> "kha"
      [] OTHER -> c

Lower(s) == [i \in 1..Len(s) |-> LowerChar(s[i])]

\* _is_label_row: the cells "A", "1a" and "11" (Cyrillic A, a) all occur
_is_label_row(row) ==
    LET cleaned == CleanedCells(row)
        Has(t) == \E i \in 1..Len(cleaned) : cleaned[i] = t
    IN  /\ cleaned # <<>>
        /\ Has(<<"A">>) /\ Has(<<"1", "a">>) /\ Has(<<"1", "1">>)

\* the keywords of _is_header_row
HeaderKeywords ==
    { <<"Kod tovara">>, <<"Naimenovanie tovara">>, <<"Edinica izmereniya">>,
      <<"uslovnoe">>, <<"nacio">>, <<"kratkoe">>, <<"cif-">> }

_is_header_row(row) ==
    \E kw \in HeaderKeywords : IsSubstring(kw, RowText(row))

\* _is_totals_row: "Vsego k oplate", in any letter case
_is_totals_row(row) ==
    \/ IsSubstring(<<"Vsego k oplate">>, RowText(row))
    \/ IsSubstring(<<"vsego k oplate">>, Lower(RowText(row)))

\* the keywords of _is_signature_row
SignatureKeywords ==
    { <<"Rukovoditel organizacii">>, <<"Glavnyj buhgalter">>,
      <<"upolnomochennoe lico">>, <<"podpis">>, <<"f.i.o.">> }

_is_signature_row(row) ==
    \E kw \in SignatureKeywords : IsSubstring(kw, RowText(row))

\* expected_cols of _normalize_row
ExpectedCols == 16

\* a variant with a slip: an "if" for the "while", one leading empty cell dropped at most
DropLeadingEmpty_Once(stripped) ==
    IF Len(stripped) > ExpectedCols /\ _clean(stripped[1]) = <<>>
    THEN Tail(stripped) ELSE stripped

RECURSIVE DropLeadingEmpty(_)
\* while len(stripped) > expected_cols and not _clean(stripped[0])
DropLeadingEmpty(stripped) ==
    IF Len(stripped) > ExpectedCols /\ _clean(stripped[1]) = <<>>
    THEN DropLeadingEmpty(Tail(stripped)) ELSE stripped

\* a variant with a slip: a 17-cell row cut at the right end, its leading cell kept
_normalize_row_KeepLeading(row) ==
    IF Len(row) = ExpectedCols + 1 THEN SubSeq(row, 1, ExpectedCols)
    ELSE IF Len(row) = ExpectedCols THEN row
    ELSE IF Len(row) > ExpectedCols + 1
    THEN SubSeq(DropLeadingEmpty(row), 1, ExpectedCols)
    ELSE row \o [i \in 1..(ExpectedCols - Len(row)) |-> <<>>]

\* a variant with a slip: a narrow row returned as it is, without padding
_normalize_row_NoPad(row) ==
    IF Len(row) = ExpectedCols + 1 THEN Tail(row)
    ELSE IF Len(row) = ExpectedCols THEN row
    ELSE IF Len(row) > ExpectedCols + 1
    THEN SubSeq(DropLeadingEmpty(row), 1, ExpectedCols)
    ELSE row

\* _normalize_row(row)
_normalize_row(row) ==
    IF Len(row) = ExpectedCols + 1 THEN Tail(row)
    ELSE IF Len(row) = ExpectedCols THEN row
    ELSE IF Len(row) > ExpectedCols + 1
    THEN SubSeq(DropLeadingEmpty(row), 1, ExpectedCols)
    ELSE row \o [i \in 1..(ExpectedCols - Len(row)) |-> <<>>]

\* re.sub(r"\D", "", s)
OnlyDigits(s) == SelectSeq(s, LAMBDA c : c \in Digits)

\* the row number of _parse_line_item: int() of the digits of the cell;
\* an empty cell, or one with no digit (ValueError), gives the fallback
RowNumber(row_num_str, fallback_row_num) ==
    IF row_num_str = <<>> THEN fallback_row_num
    ELSE IF OnlyDigits(row_num_str) = <<>> THEN fallback_row_num
    ELSE DigitsToInt(OnlyDigits(row_num_str))

\* _parse_line_item(row, fallback_row_num): <<>> is None, <<item>> an item.
\* cols[k] of the source is cols[k + 1] here.
_parse_line_item(row, fallback_row_num) ==
    LET cols == _normalize_row(row)
        product_code == _clean(cols[1])
        row_num_str == _clean(cols[2])
        name == _clean(cols[3])
    IN  IF name = <<>> /\ product_code = <<>> THEN <<>>
        ELSE <<LineItem(RowNumber(row_num_str, fallback_row_num),
                        product_code, name, _clean(cols[4]),
                        _clean(cols[5]), _clean(cols[6]),
                        _parse_decimal(cols[7]), _parse_decimal(cols[8]),
                        _parse_decimal(cols[9]), _clean(cols[10]),
                        _clean(cols[11]), _parse_decimal(cols[12]),
                        _parse_decimal(cols[13]), _clean(cols[14]),
                        _clean(cols[15]), _clean(cols[16]))>>

\* _parse_totals_row(row)
_parse_totals_row(row) ==
    LET cols == _normalize_row(row)
    IN  Totals(_parse_decimal(cols[9]), _parse_decimal(cols[12]),
               _parse_decimal(cols[13]))

\* the fallback row number _extract_items_from_page hands to
\* _parse_line_item
FallbackRowNum(item_counter) == item_counter + 1

----------------------------------------------------------------------------
(* Inputs of the model. *)

SeqsUpTo(S, n) == UNION {[1..k -> S] : k \in 0..n}

\* an empty cell
E == <<>>

\* a 16-cell data row; the cells not named are empty
DataRow(code, num, name, qty, price, sub, rate, vat, total) ==
    <<code, num, name, E, E, E, qty, price, sub, E, rate, vat, total,
      E, E, E>>

\* the rows a page's tables may hold, by name
RowIds ==
    {"numbered", "numbered_2", "unnumbered", "wide_dash", "blank", "totals",
     "totals_zero", "label", "header", "signature"}

RowSample(id) ==
    CASE id = "numbered" ->
            \* row number 1; 2 x 1,00 = 2,00 + 0,40 = 2,40 at 20%
            DataRow(<<"P">>, <<"1">>, <<"n">>, <<"2">>, <<"1", ",", "0", "0">>,
                    <<"2", ",", "0", "0">>, <<"2", "0", "%">>,
                    <<"0", ",", "4", "0">>, <<"2", ",", "4", "0">>)
      [] id = "numbered_2" ->
            \* row number "2."; 1 x 1,00 = 1,00 + 0,20 = 1,20 at 20%
            DataRow(<<"P">>, <<"2", ".">>, <<"n">>, <<"1">>,
                    <<"1", ",", "0", "0">>, <<"1", ",", "0", "0">>,
                    <<"2", "0", "%">>, <<"0", ",", "2", "0">>,
                    <<"1", ",", "2", "0">>)
      [] id = "unnumbered" ->
            \* no row number, no product code; gross price 1,20
            DataRow(None, E, <<"n">>, <<"1">>, <<"1", ",", "2", "0">>,
                    <<"1", ",", "0", "0">>, <<"2", "0", "%">>,
                    <<"0", ",", "2", "0">>, <<"1", ",", "2", "0">>)
      [] id = "wide_dash" ->
            \* 17 cells (leading empty cell); the row-number cell holds no
            \* digit; no VAT
            <<None>> \o
            DataRow(<<"P">>, <<"-">>, E, <<"1">>, <<"1", ",", "0", "0">>,
                    <<"1", ",", "0", "0">>, <<"-", "-">>, <<"-", "-">>,
                    <<"1", ",", "0", "0">>)
      [] id = "blank" ->
            \* a structural row: no name, no product code
            DataRow(E, <<" ">>, None, E, E, E, E, E, E)
      [] id = "totals" ->
            \* the sums of the rows "numbered" and "numbered_2"
            DataRow(<<"Vsego k oplate">>, E, E, E, E,
                    <<"3", ",", "0", "0">>, <<"KHA">>,
                    <<"0", ",", "6", "0">>, <<"3", ",", "6", "0">>)
      [] id = "totals_zero" ->
            \* a totals row whose amounts are placeholders, in upper case
            DataRow(<<"VSEGO K OPLATE">>, E, E, E, E, <<"-", "-">>, <<"KHA">>,
                    <<"-", "-">>, <<"X">>)
      [] id = "label" ->
            << <<"A">>, <<"1">>, <<"1", "a">>, <<"1", "b">>, <<"2">>,
               <<"2", "a">>, <<"3">>, <<"4">>, <<"5">>, <<"6">>, <<"7">>,
               <<"8">>, <<"9">>, <<"1", "0">>, <<"1", "0", "a">>,
               <<"1", "1">> >>
      [] id = "header" ->
            DataRow(<<"Kod tovara">>, <<"N">>, <<"Naimenovanie tovara">>,
                    E, E, E, E, E, E)
      [] id = "signature" ->
            DataRow(<<"Rukovoditel organizacii">>, E, <<"podpis">>,
                    E, E, E, E, E, E)

\* The builders and the classification, tabulated over the rows of the
\* model (rows and page_of hold the rows by name).

\* a variant with a slip: the totals test made before the three tests that discard a row
RowBranch_TotalsFirst(row) ==
    IF _is_totals_row(row) THEN "totals"
    ELSE IF _is_label_row(row) \/ _is_header_row(row)
            \/ _is_signature_row(row)
    THEN "skip"
    ELSE "data"

\* the branch of the loop body of _extract_items_from_page a row takes:
\* "skip" (continue), "totals", or "data"
RowBranch(row) ==
    IF _is_label_row(row) \/ _is_header_row(row) \/ _is_signature_row(row)
    THEN "skip"
    ELSE IF _is_totals_row(row) THEN "totals"
    ELSE "data"

RowClass == [id \in RowIds |-> RowBranch(RowSample(id))]

\* totals = _parse_totals_row(row)
ParsedTotals == [id \in RowIds |-> _parse_totals_row(RowSample(id))]

\* item = _parse_line_item(row, fallback_row_num=item_counter + 1)
ParsedItem ==
    [id \in RowIds, item_counter \in 0..MaxRows |->
        _parse_line_item(RowSample(id), FallbackRowNum(item_counter))]

RECURSIVE ExtractLoop(_, _, _, _)
\* the loop of _extract_items_from_page over the rows not yet visited:
\* items and totals so far, item_counter
ExtractLoop(rest, item_counter, items, totals) ==
    IF rest = <<>> THEN [items |-> items, totals |-> totals]
    ELSE LET id == rest[1]
         IN  IF RowClass[id] = "skip"
             THEN ExtractLoop(Tail(rest), item_counter, items, totals)
             ELSE IF RowClass[id] = "totals"
             THEN ExtractLoop(Tail(rest), item_counter, items,
                              <<ParsedTotals[id]>>)
             ELSE LET item == ParsedItem[id, item_counter]
                  IN  IF item # <<>>
                      THEN ExtractLoop(Tail(rest), item_counter + 1,
                                       items \o item, totals)
                      ELSE ExtractLoop(Tail(rest), item_counter, items,
                                       totals)

\* _extract_items_from_page(page, item_counter): page_rows are the rows of
\* the page's tables in order; totals is <<>> for None
_extract_items_from_page(page_rows, item_counter) ==
    ExtractLoop(page_rows, item_counter, <<>>, <<>>)

\* one pass of the row loop of _extract_items_from_page, on the row itself:
\* the branch taken, the totals or the item built (<<>> if none) and the
\* item_counter after the pass
LoopPass(row, item_counter) ==
    LET branch == RowBranch(row)
        item == IF branch = "data"
                THEN _parse_line_item(row, FallbackRowNum(item_counter))
                ELSE <<>>
    IN  [ branch       |-> branch,
          totals       |-> IF branch = "totals"
                           THEN <<_parse_totals_row(row)>> ELSE <<>>,
          item         |-> item,
          item_counter |-> IF item # <<>> THEN item_counter + 1
                           ELSE item_counter ]

\* the rows of page p (1-based), in table order
PageRows(p) ==
    LET idx == {k \in 1..Len(rows) : page_of[k] = p}
    IN  IF idx = {} THEN <<>>
        ELSE [j \in 1..Cardinality(idx) |-> rows[Min(idx) + j - 1]]

\* an item as _detect_vat_mode and _validate read it: quantity,
\* unit_price, subtotal, the raw rate, vat_amount and total (hundredths)
VatItem(quantity, unit_price, subtotal, vat_rate, vat_amount, total) ==
    LineItem(0, <<"P">>, <<"n">>, E, E, E, quantity, unit_price, subtotal,
             E, vat_rate, vat_amount, total, E, E, E)

Rate20 == <<"2", "0", "%">>
RateFraction10 == <<"1", "0", "/", "1", "1", "0">>
RateZeroPercent == <<"0", "%">>
RateDashes == <<"-", "-">>
RateBezNDS == <<"b", "e", "z", " ", "N", "D", "S">>

\* the items of SpecVat
ItemSamples ==
    { \* net price: 2 x 1.00 = 2.00, + 0.40 = 2.40
      VatItem(200, 100, 200, Rate20, 40, 240),
      \* gross price: 2 x 1.20 = 2.40, - 0.40 = 2.00
      VatItem(200, 120, 200, Rate20, 40, 240),
      \* a rate, no VAT amount: subtotal = total, both conventions match
      VatItem(100, 100, 100, Rate20, 0, 100),
      \* neither convention matches
      VatItem(100, 100, 150, Rate20, 30, 180),
      \* net price, subtotal off by 0.02 (the tolerance for quantity 1)
      VatItem(100, 100, 102, Rate20, 20, 122),
      \* net price, subtotal off by 0.03 with quantity 1
      VatItem(100, 100, 103, Rate20, 20, 123),
      \* net price, quantity 2 (tolerance 0.04): subtotal off by 0.03, and
      \* the VAT amount off by 0.024 from 20% of the subtotal
      VatItem(200, 100, 203, Rate20, 43, 246),
      \* net price: 1 x 1.00 = 1.00, + 0.20 = 1.20
      VatItem(100, 100, 100, Rate20, 20, 120),
      \* net price, but subtotal + vat is not the total
      VatItem(100, 100, 100, Rate20, 20, 125),
      \* gross price 1.10 at 10/110, but total - vat is not the subtotal
      VatItem(100, 110, 95, RateFraction10, 10, 110),
      \* a rate, nothing else parsed but the amounts
      VatItem(0, 0, 100, Rate20, 20, 120),
      \* a rate, price 0 and subtotal 0, a total
      VatItem(100, 0, 0, Rate20, 0, 50),
      \* a returned item: negative quantity and amounts
      VatItem(-100, 100, -100, Rate20, -20, -120),
      \* no VAT
      VatItem(100, 100, 100, RateDashes, 0, 100),
      VatItem(200, 100, 200, RateBezNDS, 0, 200),
      \* no rate, a negative VAT amount
      VatItem(100, 100, 100, RateDashes, -5, 95),
      \* no rate, a positive VAT amount
      VatItem(100, 100, 100, RateDashes, 20, 120),
      \* no rate, no VAT amount, subtotal + vat is not the total
      VatItem(100, 100, 100, E, 0, 150),
      \* "0%": rate 0, not one of the no-VAT strings
      VatItem(100, 100, 100, RateZeroPercent, 0, 100) }

\* the declared totals of SpecVat
TotalsSamples ==
    { DefaultTotals,
      Totals(200, 40, 240),
      Totals(205, 45, 245),
      Totals(206, 46, 246),
      Totals(150, 40, 240),
      Totals(100, 0, 100),
      Totals(100, 0, 120),
      Totals(0, 40, 100) }

\* the digit of a number below ten
DigitChar(d) == CHOOSE c \in Digits : DigitVal(c) = d

\* the text of a cell that holds its own position j in the row: "7", "12"
Tag(j) ==
    IF j < 10 THEN <<DigitChar(j)>>
    ELSE <<DigitChar(j \div 10), DigitChar(j % 10)>>

\* a row of w cells: lead empty cells (all None, "" or " "), then cells
\* that hold their position; with a hole, the second of those is empty
WidthRow(w, lead, filler, hole) ==
    [j \in 1..w |->
        IF j <= lead THEN filler
        ELSE IF hole /\ j = lead + 2 THEN E
        ELSE Tag(j)]

\* rows of every width from 0 to MaxWidth
WidthRows ==
    UNION { { WidthRow(w, lead, filler, hole) :
                lead \in 0..w, filler \in {None, E, <<" ">>},
                hole \in BOOLEAN }
            : w \in 0..MaxWidth }

\* rows that match several of the row classes, or nearly match one
MixedRows ==
    { \* the column labels, with the totals phrase in one cell
      [RowSample("label") EXCEPT ![4] = <<"Vsego k oplate">>],
      \* a header keyword and the totals phrase
      DataRow(<<"Kod tovara">>, E, <<"Vsego k oplate">>, E, E, E, E, E, E),
      \* a signature keyword and the totals phrase
      DataRow(<<"VSEGO K OPLATE">>, <<"1">>, <<"p", ":", " ", "podpis">>,
              E, E, <<"1", ",", "0", "0">>, E, E, <<"1", ",", "0", "0">>),
      \* the totals phrase inside a longer text, 17 cells
      <<None>> \o
      DataRow(<<"P">>, <<"3">>, <<"I", ":", " ", "Vsego k oplate", ":">>,
              E, E, <<"5", ",", "0", "0">>, E, <<"1", ",", "0", "0">>,
              <<"6", ",", "0", "0">>),
      \* the labels "A" and "1a" without "11": a data row
      DataRow(<<"A">>, <<"1">>, <<"1", "a">>, E, E, E, E, E, E),
      \* a header keyword split over two cells: a data row
      DataRow(<<"Kod">>, <<"4">>, <<"tovara">>, E, E, E, E, E, E) }

\* the rows of SpecRow
RowInputs == {RowSample(id) : id \in RowIds} \cup WidthRows \cup MixedRows

----------------------------------------------------------------------------
(* parse_upd. *)

\* if pg_idx == 0
IsFirstPage(idx) == idx = 0

\* a variant with a slip: the statements after the loop run once the first page is done
LoopExhausted_AfterFirstPage(idx, count) == idx >= 1 \/ count = 0

\* the loop over pdf.pages has no page left
LoopExhausted(idx, count) == idx = count

\* a variant with a slip: the last page taken to be the one at index len(pdf.pages)
IsLastPage_OffByOne(idx, count) == idx = count

\* if pg_idx == len(pdf.pages) - 1
IsLastPage(idx, count) == idx = count - 1

\* a variant with a slip: totals once captured are kept, a later totals row ignored
MergeTotals_FirstWins(final, totals) ==
    IF final = <<>> /\ totals # <<>> THEN totals ELSE final

\* if totals: final_totals = totals (a Totals object is always true)
MergeTotals(final, totals) == IF totals # <<>> THEN totals ELSE final

\* a variant with a slip: the item counter restarted on every page
ItemCounter_PerPage(items_so_far) == 0

\* the item_counter parse_upd hands to _extract_items_from_page
ItemCounter(items_so_far) == Len(items_so_far)

\* no function is studied on its own
FnIdle ==
    /\ in_row = <<>>
    /\ in_counter = 0
    /\ out_cols = <<>>
    /\ out_step = <<>>
    /\ out_twins = <<>>
    /\ in_text = <<>>
    /\ out_dec = <<>>

\* the rows of the documents of Spec: of the three kinds of row the loop
\* discards alike, the label row stands for all (SpecRow tells them apart)
DocRowIds == RowIds \ {"header", "signature"}

\* a document of at most MaxPages pages (a PDF may hold none) and at most
\* MaxRows table rows; the parse is about to enter its loop over the pages
Init ==
    /\ pc = "pages"
    /\ page_count \in 0..MaxPages
    /\ rows \in SeqsUpTo(DocRowIds, MaxRows)
    /\ page_of \in [1..Len(rows) -> 1..page_count]
    /\ \A k \in 1..(Len(rows) - 1) : page_of[k] <= page_of[k + 1]
    /\ pg_idx = 0
    /\ all_items = <<>>
    /\ final_totals = <<>>
    /\ header_runs = <<>>
    /\ transfer_runs = <<>>
    /\ doc_items = <<>>
    /\ doc_totals = DefaultTotals
    /\ doc_vat = DefaultVATInfo
    /\ doc_validation = DefaultValidationResult
    /\ FnIdle

\* one iteration of the loop over pdf.pages
ProcessPage ==
    /\ pc = "pages"
    /\ pg_idx < page_count
    /\ LET got == _extract_items_from_page(PageRows(pg_idx + 1),
                                           ItemCounter(all_items))
       IN  /\ all_items' = all_items \o got.items
           /\ final_totals' = MergeTotals(final_totals, got.totals)
    /\ header_runs' =
           IF IsFirstPage(pg_idx) THEN Append(header_runs, pg_idx + 1)
           ELSE header_runs
    /\ transfer_runs' =
           IF IsLastPage(pg_idx, page_count)
           THEN Append(transfer_runs, pg_idx + 1) ELSE transfer_runs
    /\ pg_idx' = pg_idx + 1
    /\ UNCHANGED <<pc, rows, page_of, page_count, doc_items, doc_totals,
                   doc_vat, doc_validation>>
    /\ UNCHANGED fnvars

\* after the loop: doc.items = all_items, doc.totals = final_totals if any
Assemble ==
    /\ pc = "pages"
    /\ LoopExhausted(pg_idx, page_count)
    /\ doc_items' = all_items
    /\ doc_totals' = IF final_totals # <<>> THEN final_totals[1] ELSE doc_totals
    /\ pc' = "detect"
    /\ UNCHANGED <<rows, page_of, page_count, pg_idx, all_items, final_totals,
                   header_runs, transfer_runs, doc_vat, doc_validation>>
    /\ UNCHANGED fnvars

\* doc.vat = _detect_vat_mode(doc)
Detect ==
    /\ pc = "detect"
    /\ doc_vat' = _detect_vat_mode(doc_items)
    /\ pc' = "validate"
    /\ UNCHANGED <<rows, page_of, page_count, pg_idx, all_items, final_totals,
                   header_runs, transfer_runs, doc_items, doc_totals,
                   doc_validation>>
    /\ UNCHANGED fnvars

\* a variant with a slip: an exception for a document with errors, no document returned
Validate_RaiseOnError ==
    /\ pc = "validate"
    /\ _validate(doc_items, doc_totals, doc_vat).is_valid
    /\ doc_validation' = _validate(doc_items, doc_totals, doc_vat)
    /\ pc' = "done"
    /\ UNCHANGED <<rows, page_of, page_count, pg_idx, all_items, final_totals,
                   header_runs, transfer_runs, doc_items, doc_totals,
                   doc_vat>>
    /\ UNCHANGED fnvars

\* doc.validation = _validate(doc); return doc
Validate ==
    /\ pc = "validate"
    /\ doc_validation' = _validate(doc_items, doc_totals, doc_vat)
    /\ pc' = "done"
    /\ UNCHANGED <<rows, page_of, page_count, pg_idx, all_items, final_totals,
                   header_runs, transfer_runs, doc_items, doc_totals,
                   doc_vat>>
    /\ UNCHANGED fnvars

Next == ProcessPage \/ Assemble \/ Detect \/ Validate

Spec == Init /\ [][Next]_vars

\* _detect_vat_mode and _validate on a document whose items and declared
\* totals are drawn from ItemSamples and TotalsSamples: the state of
\* parse_upd after its page loop.  Item i carries row_number i.
InitVat ==
    /\ pc = "detect"
    /\ rows = <<>>
    /\ page_of = <<>>
    /\ page_count = 0
    /\ pg_idx = 0
    /\ all_items = <<>>
    /\ final_totals = <<>>
    /\ header_runs = <<>>
    /\ transfer_runs = <<>>
    /\ \E its \in SeqsUpTo(ItemSamples, MaxItems) :
           doc_items = [i \in 1..Len(its) |-> [its[i] EXCEPT !.row_number = i]]
    /\ doc_totals \in TotalsSamples
    /\ doc_vat = DefaultVATInfo
    /\ doc_validation = DefaultValidationResult
    /\ FnIdle

NextVat == Detect \/ Validate

\* as InitVat, for a document in which no totals row was found: the
\* declared totals keep their default
InitVatNoTotals == InitVat /\ doc_totals = DefaultTotals

SpecVatNoTotals == InitVatNoTotals /\ [][NextVat]_vars

SpecVat == InitVat /\ [][NextVat]_vars

----------------------------------------------------------------------------
(* The row functions on their own: _normalize_row, the row loop of         *)
(* _extract_items_from_page and _parse_line_item, each applied to a row    *)
(* of RowInputs.                                                           *)

\* parse_upd is not running
ParseIdle ==
    /\ rows = <<>>
    /\ page_of = <<>>
    /\ page_count = 0
    /\ pg_idx = 0
    /\ all_items = <<>>
    /\ final_totals = <<>>
    /\ header_runs = <<>>
    /\ transfer_runs = <<>>
    /\ doc_items = <<>>
    /\ doc_totals = DefaultTotals
    /\ doc_vat = DefaultVATInfo
    /\ doc_validation = DefaultValidationResult

parsevars ==
    <<rows, page_of, page_count, pg_idx, all_items, final_totals,
      header_runs, transfer_runs, doc_items, doc_totals, doc_vat,
      doc_validation>>

InitRow ==
    /\ pc = "call"
    /\ in_row \in RowInputs
    /\ in_counter \in 0..1
    /\ out_cols = <<>>
    /\ out_step = <<>>
    /\ out_twins = <<>>
    /\ in_text = <<>>
    /\ out_dec = <<>>
    /\ ParseIdle

\* cols = _normalize_row(row)
NormalizeRow ==
    /\ pc = "call"
    /\ out_cols' = <<_normalize_row(in_row)>>
    /\ pc' = "returned"
    /\ UNCHANGED <<parsevars, in_row, in_counter, out_step, out_twins,
                   in_text, out_dec>>

\* one pass of "for row in table" of _extract_items_from_page
ExtractRow ==
    /\ pc = "call"
    /\ out_step' = <<LoopPass(in_row, in_counter)>>
    /\ pc' = "returned"
    /\ UNCHANGED <<parsevars, in_row, in_counter, out_cols, out_twins,
                   in_text, out_dec>>

\* _parse_line_item on a 16-cell row and on the same cells behind one more
\* leading cell (None or ""), with the same fallback_row_num
ParseLineItemTwice ==
    /\ pc = "call"
    /\ Len(in_row) = ExpectedCols
    /\ \E lead \in {None, E} :
           out_twins' =
               <<[ lead  |-> lead,
                   plain |-> _parse_line_item(in_row,
                                              FallbackRowNum(in_counter)),
                   wide  |-> _parse_line_item(<<lead>> \o in_row,
                                              FallbackRowNum(in_counter)) ]>>
    /\ pc' = "returned"
    /\ UNCHANGED <<parsevars, in_row, in_counter, out_cols, out_step,
                   in_text, out_dec>>

NextRow == NormalizeRow \/ ExtractRow \/ ParseLineItemTwice

SpecRow == InitRow /\ [][NextRow]_vars

----------------------------------------------------------------------------
(* _parse_decimal on its own, applied to a text of TextInputs.             *)

\* the characters of the texts: digits, both separators, the minus sign,
\* the space and the no-break space, the placeholders X and Cyrillic Kha,
\* and a letter
TextChars == {"1", "5", ",", ".", "-", " ", "NBSP", "X", "KHA", "a"}

\* the number of characters after the first dot or comma of a text
AfterSeparator(text) ==
    LET seps == {i \in 1..Len(text) : text[i] \in {".", ","}}
    IN  IF seps = {} THEN 0
        ELSE Cardinality({i \in 1..Len(text) :
                             i > Min(seps) /\ text[i] \in Digits})

\* the texts of SpecDecimal: a missing text, and every text of at most
\* MaxText characters with at most two digits after its separator (a
\* Decimal of the model is a number of hundredths)
TextInputs ==
    {None} \cup {t \in SeqsUpTo(TextChars, MaxText) : AfterSeparator(t) <= 2}

InitDecimal ==
    /\ pc = "call"
    /\ in_text \in TextInputs
    /\ out_dec = <<>>
    /\ in_row = <<>>
    /\ in_counter = 0
    /\ out_cols = <<>>
    /\ out_step = <<>>
    /\ out_twins = <<>>
    /\ ParseIdle

\* _parse_decimal(text): it returns a Decimal, or an exception leaves it
ParseDecimal ==
    /\ pc = "call"
    /\ IF ParseDecimalRaises(in_text) = ""
       THEN out_dec' = <<_parse_decimal(in_text)>> /\ pc' = "returned"
       ELSE out_dec' = out_dec /\ pc' = "raised"
    /\ UNCHANGED <<parsevars, in_row, in_counter, out_cols, out_step,
                   out_twins, in_text>>

NextDecimal == ParseDecimal

SpecDecimal == InitDecimal /\ [][NextDecimal]_vars

----------------------------------------------------------------------------
(* Properties of _detect_vat_mode (checked under SpecVat).                 *)

\* _detect_vat_mode has returned
Detected == pc \in {"validate", "done"}

\* the checked set of doc.items: rate > 0 and quantity > 0
CheckedSet ==
    {i \in 1..Len(doc_items) :
        doc_items[i].vat_rate_percent > 0 /\ doc_items[i].quantity > 0}

\* the checked items whose price * quantity is within 0.02 * quantity of
\* the subtotal
OntopMatches ==
    {i \in CheckedSet :
        LET d == doc_items[i].unit_price * doc_items[i].quantity
                 - 100 * doc_items[i].subtotal
        IN  d <= 2 * doc_items[i].quantity /\ 0 - d <= 2 * doc_items[i].quantity}

\* the checked items whose price * quantity is within 0.02 * quantity of
\* the total
IncludedMatches ==
    {i \in CheckedSet :
        LET d == doc_items[i].unit_price * doc_items[i].quantity
                 - 100 * doc_items[i].total
        IN  d <= 2 * doc_items[i].quantity /\ 0 - d <= 2 * doc_items[i].quantity}

\* C1: with a non-empty checked set, the detector returns ontop/high when
\* all checked items ontop-match and not all included-match, included/high
\* when all included-match and not all ontop-match, and otherwise medium
\* with the mode of the larger match count, ontop on a tie.
C1_DetectDecision ==
    (Detected /\ CheckedSet # {}) =>
        LET n == Cardinality(CheckedSet)
            o == Cardinality(OntopMatches)
            c == Cardinality(IncludedMatches)
        IN  IF o = n /\ c # n
            THEN /\ doc_vat.vat_mode = "ontop"
                 /\ doc_vat.detection_confidence = "high"
            ELSE IF c = n /\ o # n
            THEN /\ doc_vat.vat_mode = "included"
                 /\ doc_vat.detection_confidence = "high"
            ELSE /\ doc_vat.detection_confidence = "medium"
                 /\ doc_vat.vat_mode = IF o >= c THEN "ontop" ELSE "included"

\* a detection over two checked items, one matching the included
\* convention only and one matching neither: included at medium
C1_Witness ==
    /\ Detected
    /\ Cardinality(CheckedSet) = 2
    /\ Cardinality(IncludedMatches) = 1
    /\ OntopMatches = {}
    /\ doc_vat.vat_mode = "included"
    /\ doc_vat.detection_confidence = "medium"

\* the raw rate strings recognised as "no VAT"
RecognisedNoVat ==
    { <<"-", "-">>, <<"-">>, <<>>,
      <<"b", "e", "z", " ", "N", "D", "S">>,
      <<"B", "e", "z", " ", "N", "D", "S">> }

\* every item has rate 0, VAT amount 0 and a recognised no-VAT raw rate
EveryItemNoVat ==
    \A i \in 1..Len(doc_items) :
        /\ doc_items[i].vat_rate_percent = 0
        /\ doc_items[i].vat_amount = 0
        /\ doc_items[i].vat_rate \in RecognisedNoVat

\* C2 as stated: for any item list in which every item has rate 0, VAT
\* amount 0 and a recognised no-VAT raw rate, the detector returns
\* none/high.
C2_Original ==
    (Detected /\ EveryItemNoVat) =>
        /\ doc_vat.vat_mode = "none"
        /\ doc_vat.detection_confidence = "high"

\* C2, amended: for any non-empty item list in which every item has rate
\* 0, VAT amount 0 and a recognised no-VAT raw rate, the detector returns
\* none/high.
C2_NonEmptyNoVat ==
    (Detected /\ doc_items # <<>> /\ EveryItemNoVat) =>
        /\ doc_vat.vat_mode = "none"
        /\ doc_vat.detection_confidence = "high"

\* a detection over two no-VAT items, one "--" and one "bez NDS"
C2_Witness ==
    /\ Detected
    /\ Len(doc_items) = 2
    /\ EveryItemNoVat
    /\ doc_items[1].vat_rate # doc_items[2].vat_rate
    /\ doc_vat.vat_mode = "none"
    /\ doc_vat.detection_confidence = "high"

\* C3: when the no-VAT rule does not apply (there is no item, or some item
\* has a rate, a VAT amount or an unrecognised raw rate) and the checked
\* set is empty, the detector returns none/low.
C3_EmptyCheckedSet ==
    (Detected /\ (doc_items = <<>> \/ ~EveryItemNoVat) /\ CheckedSet = {}) =>
        /\ doc_vat.vat_mode = "none"
        /\ doc_vat.detection_confidence = "low"

\* a detection over items of which one has a rate but no quantity: the
\* checked set is empty
C3_Witness ==
    /\ Detected
    /\ \E i \in 1..Len(doc_items) :
           doc_items[i].vat_rate_percent > 0 /\ doc_items[i].quantity <= 0
    /\ CheckedSet = {}
    /\ doc_vat.vat_mode = "none"
    /\ doc_vat.detection_confidence = "low"

----------------------------------------------------------------------------
(* Properties of _validate (checked under SpecVat).                        *)

\* _validate has returned
Validated == pc = "done"

Errors == doc_validation.errors
Warnings == doc_validation.warnings

HasError(kind) == \E k \in 1..Len(Errors) : Errors[k].kind = kind

\* the warnings of a kind about item i
WarningsAbout(kind, i) ==
    {k \in 1..Len(Warnings) : Warnings[k].kind = kind /\ Warnings[k].item = i}

RECURSIVE Sum(_, _)
\* the sum of a field over the first n items of doc.items
Sum(field, n) ==
    IF n = 0 THEN 0 ELSE Sum(field, n - 1) + doc_items[n][field]

\* the distance of a sum of the items from the declared figure
Off(field, declared) ==
    LET d == Sum(field, Len(doc_items)) - declared
    IN  IF d < 0 THEN 0 - d ELSE d

\* C4 as stated: an error is recorded for each of the three sums that is
\* more than 0.05 off the declared figure, for every item list and every
\* declared Totals, and the result is then not valid.
C4_Original ==
    Validated =>
        /\ Off("subtotal", doc_totals.subtotal) > 5 =>
               HasError("sum_subtotal") /\ ~doc_validation.is_valid
        /\ Off("vat_amount", doc_totals.vat) > 5 =>
               HasError("sum_vat") /\ ~doc_validation.is_valid
        /\ Off("total", doc_totals.total) > 5 =>
               HasError("sum_total") /\ ~doc_validation.is_valid

\* C4, amended: for a non-empty item list, an error is recorded for each
\* of the three sums whose declared figure is not zero and that is more
\* than 0.05 off it, and the result is then not valid.
C4_SumErrors ==
    (Validated /\ doc_items # <<>>) =>
        /\ (doc_totals.subtotal # 0 /\ Off("subtotal", doc_totals.subtotal) > 5)
               => HasError("sum_subtotal") /\ ~doc_validation.is_valid
        /\ (doc_totals.vat # 0 /\ Off("vat_amount", doc_totals.vat) > 5)
               => HasError("sum_vat") /\ ~doc_validation.is_valid
        /\ (doc_totals.total # 0 /\ Off("total", doc_totals.total) > 5)
               => HasError("sum_total") /\ ~doc_validation.is_valid

\* two items of subtotal 1.00 each against a declared subtotal of 1.50,
\* VAT and total agreeing: not valid, the one error being the 0.50
\* mismatch of the subtotals
C4_Witness ==
    /\ Validated
    /\ Len(doc_items) = 2
    /\ doc_items[1].subtotal = 100 /\ doc_items[2].subtotal = 100
    /\ doc_totals.subtotal = 150
    /\ ~doc_validation.is_valid
    /\ Len(Errors) = 1
    /\ Errors[1].kind = "sum_subtotal"
    /\ Errors[1].args = <<200, 150, 50>>

\* C5 as stated: in mode none, an error is recorded if any item has a
\* nonzero VAT amount, and an error is recorded if the declared subtotal
\* is more than 0.05 off the declared total.
C5_Original ==
    (Validated /\ doc_vat.vat_mode = "none") =>
        /\ (\E i \in 1..Len(doc_items) : doc_items[i].vat_amount # 0)
               => HasError("none_items_with_vat")
        /\ (doc_totals.subtotal - doc_totals.total > 5
               \/ doc_totals.total - doc_totals.subtotal > 5)
               => HasError("none_totals")

\* quantity * unit_price is more than 0.02 off the subtotal of item i
ItemMathOff(i) ==
    LET d == doc_items[i].quantity * doc_items[i].unit_price
             - 100 * doc_items[i].subtotal
    IN  d > 200 \/ 0 - d > 200

\* C6 as stated: for every item, a warning (and no error) is appended
\* whenever quantity * unit_price is more than 0.02 off the subtotal, and
\* none when it is at most 0.02 off.
C6_Original ==
    Validated =>
        /\ \A i \in 1..Len(doc_items) :
               ItemMathOff(i) <=> WarningsAbout("item_math", i) # {}
        /\ ~HasError("item_math")

\* C6, amended: for every item whose quantity and unit_price are both
\* nonzero, exactly one warning (and no error) is appended when
\* quantity * unit_price is more than 0.02 off the subtotal, and none when
\* it is at most 0.02 off; for an item whose quantity or unit_price is
\* zero no such warning is appended.
C6_ItemMathWarnings ==
    Validated =>
        /\ \A i \in 1..Len(doc_items) :
               IF /\ doc_items[i].quantity # 0
                  /\ doc_items[i].unit_price # 0
                  /\ ItemMathOff(i)
               THEN Cardinality(WarningsAbout("item_math", i)) = 1
               ELSE WarningsAbout("item_math", i) = {}
        /\ ~HasError("item_math")

\* two items of quantity 2 and nonzero price, one 0.03 off (warned, though
\* within 0.02 * quantity) and one exact (not warned)
C6_Witness ==
    /\ Validated
    /\ Len(doc_items) = 2
    /\ doc_items[1].quantity = 200 /\ doc_items[1].unit_price # 0
    /\ doc_items[1].quantity * doc_items[1].unit_price
           - 100 * doc_items[1].subtotal = 0 - 300
    /\ WarningsAbout("item_math", 1) # {}
    /\ doc_items[2].quantity = 200 /\ doc_items[2].unit_price # 0
    /\ ~ItemMathOff(2)
    /\ WarningsAbout("item_math", 2) = {}

\* subtotal + vat_amount is more than 0.02 off the total of item i
OntopSumOff(i) ==
    LET d == doc_items[i].subtotal + doc_items[i].vat_amount
             - doc_items[i].total
    IN  d > 2 \/ 0 - d > 2

\* subtotal * rate / 100 is more than 0.02 * quantity off the VAT amount
\* of item i
OntopVatOff(i) ==
    LET d == doc_items[i].subtotal * doc_items[i].vat_rate_percent
             - 100 * doc_items[i].vat_amount
    IN  d > 2 * doc_items[i].quantity \/ 0 - d > 2 * doc_items[i].quantity

\* the kinds of error of the document-level sum checks
SumErrorKinds == {"sum_subtotal", "sum_vat", "sum_total"}

C8_ValidIffNoErrors ==
    Validated => (doc_validation.is_valid <=> Errors = <<>>)

\* a valid result that carries warnings
C8_Witness ==
    /\ Validated
    /\ doc_items # <<>>
    /\ Errors = <<>>
    /\ Len(Warnings) >= 2
    /\ doc_validation.is_valid

\* the warnings about the detection confidence
ConfidenceWarnings ==
    {k \in 1..Len(Warnings) : Warnings[k].kind = "confidence"}

\* C9: a warning citing the detector's detection_reason is appended
\* exactly when detection_confidence is low or medium (none when it is
\* high), and the confidence check appends no error.
C9_ConfidenceWarning ==
    Validated =>
        /\ doc_vat.detection_confidence \in {"low", "medium", "high"}
        /\ doc_vat.detection_confidence \in {"low", "medium"} =>
               /\ Cardinality(ConfidenceWarnings) = 1
               /\ \A k \in ConfidenceWarnings :
                      /\ Warnings[k].reason = doc_vat.detection_reason
                      /\ Warnings[k].args = <<doc_vat.detection_confidence>>
                      /\ k = Len(Warnings)
        /\ doc_vat.detection_confidence = "high" => ConfidenceWarnings = {}
        /\ ~HasError("confidence")

\* a validation after a detection at confidence medium: the warning is
\* there and cites the reason
C9_Witness ==
    /\ Validated
    /\ doc_vat.detection_confidence = "medium"
    /\ Warnings # <<>>
    /\ Warnings[Len(Warnings)].kind = "confidence"
    /\ Warnings[Len(Warnings)].reason = doc_vat.detection_reason

----------------------------------------------------------------------------
(* Properties of the row numbering (checked under Spec).                   *)

\* the rows that reach the item builder and are accepted by it: data rows
\* with a name or a product code
AcceptedRow ==
    [id \in RowIds |->
        LET cols == _normalize_row(RowSample(id))
        IN  /\ RowClass[id] = "data"
            /\ (_clean(cols[1]) # <<>> \/ _clean(cols[3]) # <<>>)]

\* the rows whose row-number cell is empty or holds no digit
NoDigitRow ==
    [id \in RowIds |->
        LET cols == _normalize_row(RowSample(id))
        IN  \A k \in 1..Len(_clean(cols[2])) : _clean(cols[2])[k] \notin Digits]

\* the accepted rows of the pages processed so far, as positions in rows
AcceptedSoFar ==
    {k \in 1..Len(rows) : page_of[k] <= pg_idx /\ AcceptedRow[rows[k]]}

\* the number of accepted rows up to and including position k
Rank(k) == Cardinality({j \in AcceptedSoFar : j <= k})

\* C10: every accepted item whose row-number cell is empty or holds no
\* digit gets row_number = (number of items accepted before it over all
\* pages processed so far) + 1, dropped rows not counting; when no row
\* carries an explicit number the row_numbers are exactly 1..n in
\* page-then-row order.
C10_FallbackNumbering ==
    /\ Len(all_items) = Cardinality(AcceptedSoFar)
    /\ \A k \in AcceptedSoFar :
           NoDigitRow[rows[k]] => all_items[Rank(k)].row_number = Rank(k)
    /\ (\A k \in AcceptedSoFar : NoDigitRow[rows[k]]) =>
           \A i \in 1..Len(all_items) : all_items[i].row_number = i

\* two pages processed: an unnumbered item on the first, a dropped row and
\* an unnumbered item on the second, numbered 1 and 2
C10_Witness ==
    /\ pg_idx = 2
    /\ Len(rows) = 3
    /\ page_of = <<1, 2, 2>>
    /\ AcceptedRow[rows[1]] /\ NoDigitRow[rows[1]]
    /\ ~AcceptedRow[rows[2]] /\ RowClass[rows[2]] = "data"
    /\ AcceptedRow[rows[3]] /\ NoDigitRow[rows[3]]
    /\ Len(all_items) = 2
    /\ all_items[1].row_number = 1
    /\ all_items[2].row_number = 2

----------------------------------------------------------------------------
(* Properties of the row numbers of a document (checked under Spec).       *)

\* the accepted rows so far whose row-number cell holds a digit, as
\* positions in rows
ExplicitSoFar == {k \in AcceptedSoFar : ~NoDigitRow[rows[k]]}

\* the explicit row numbers of the table are those of a numbered table:
\* 1-based and strictly increasing in table order
ExplicitNumbersIncrease ==
    /\ \A k \in ExplicitSoFar : all_items[Rank(k)].row_number >= 1
    /\ \A k, j \in ExplicitSoFar :
           k < j => all_items[Rank(k)].row_number < all_items[Rank(j)].row_number

\* C11 as stated, for tables whose explicit row numbers are themselves
\* 1-based and strictly increasing: the row_numbers of the items are
\* 1-based, pairwise distinct and strictly increasing in table order across
\* pages, for any mix of explicit and fallback numbers.
C11_Original ==
    ExplicitNumbersIncrease =>
        /\ \A i \in 1..Len(all_items) : all_items[i].row_number >= 1
        /\ \A i, j \in 1..Len(all_items) :
               i < j => all_items[i].row_number < all_items[j].row_number

----------------------------------------------------------------------------
(* Properties of _normalize_row (checked under SpecRow).                   *)

\* _normalize_row has returned
Normalized == out_cols # <<>>

\* C12: _normalize_row returns exactly 16 fields for a row of any width; a
\* row narrower than 16 comes back with its cells in place and empty
\* strings after them, a 16-wide row comes back unchanged.
C12_SixteenFields ==
    Normalized =>
        /\ Len(out_cols[1]) = 16
        /\ DOMAIN out_cols[1] = 1..16
        /\ Len(in_row) < 16 =>
               \A j \in 1..16 :
                   out_cols[1][j] = IF j <= Len(in_row) THEN in_row[j]
                                    ELSE <<>>
        /\ Len(in_row) = 16 => out_cols[1] = in_row

\* a row of three cells comes back 16 wide, its cells first
C12_Witness ==
    /\ Normalized
    /\ Len(in_row) = 3
    /\ in_row[3] = <<"3">>
    /\ Len(out_cols[1]) = 16
    /\ out_cols[1][3] = <<"3">>
    /\ out_cols[1][4] = <<>>
    /\ out_cols[1][16] = <<>>

\* a cell without text: None, "" or whitespace only
EmptyCell(c) == c = None \/ \A k \in 1..Len(c) : c[k] \in {" ", "NBSP"}

\* the number of empty cells in_row begins with
LeadingEmpty ==
    Cardinality({j \in 1..Len(in_row) : \A i \in 1..j : EmptyCell(in_row[i])})

\* C13 as stated: for a row wider than 17 cells (that has a non-empty
\* cell), the result is the row without its leading empty cells, cut to 16
\* cells, so it starts at the row's first non-empty cell.
C13_Original ==
    (Normalized /\ Len(in_row) > 17 /\ LeadingEmpty < Len(in_row)) =>
        LET rest == SubSeq(in_row, LeadingEmpty + 1, Len(in_row))
        IN  out_cols[1] =
                SubSeq(rest, 1, IF Len(rest) < 16 THEN Len(rest) ELSE 16)

\* C13, amended: for a row wider than 17 cells, leading empty cells are
\* removed only while more than 16 cells remain, and what remains is cut to
\* 16 cells: with e leading empty cells in a row of w cells, the result is
\* the 16 cells after the first min(e, w - 16); it starts at the row's first
\* non-empty cell exactly when e <= w - 16.
C13_DropWhileWide ==
    (Normalized /\ Len(in_row) > 17) =>
        LET w == Len(in_row)
            d == IF LeadingEmpty < w - 16 THEN LeadingEmpty ELSE w - 16
        IN  /\ out_cols[1] = [j \in 1..16 |-> in_row[d + j]]
            /\ LeadingEmpty <= w - 16 => ~EmptyCell(out_cols[1][1])
            /\ LeadingEmpty > w - 16 => EmptyCell(out_cols[1][1])

\* a row of 19 cells with two leading empty cells: the result is cells 3 to
\* 18, the 19th cut off
C13_Witness ==
    /\ Normalized
    /\ Len(in_row) = 19
    /\ LeadingEmpty = 2
    /\ out_cols[1][1] = <<"3">>
    /\ out_cols[1][16] = <<"1", "8">>

----------------------------------------------------------------------------
(* Properties of _parse_line_item and of the row loop (checked under       *)
(* SpecRow).                                                               *)

\* _parse_line_item has returned for both rows
ParsedTwice == out_twins # <<>>

\* C14: for any 16 cells c, the 17-wide row of one leading empty cell
\* followed by c and the 16-wide row c give identical results from
\* _parse_line_item with the same fallback row number: the same LineItem,
\* or None for both.
C14_SameLineItem ==
    ParsedTwice =>
        /\ Len(in_row) = 16
        /\ out_twins[1].wide = out_twins[1].plain

\* a row with a product code, a name, amounts and no row number, parsed
\* behind a leading None cell: the same item, numbered by the fallback
C14_Witness ==
    /\ ParsedTwice
    /\ out_twins[1].lead = None
    /\ in_row[1] # <<>> /\ in_row[1] # None
    /\ out_twins[1].plain # <<>>
    /\ out_twins[1].plain[1].product_code = in_row[1]
    /\ out_twins[1].wide[1].product_code = in_row[1]
    /\ out_twins[1].wide[1].row_number = in_counter + 1
    /\ out_twins[1].wide[1].subtotal = 100

\* the row loop has made its pass over in_row
Stepped == out_step # <<>>

\* in_row is a label row, a descriptive header row or a signature row
Discardable ==
    _is_label_row(in_row) \/ _is_header_row(in_row)
        \/ _is_signature_row(in_row)

\* C15: a row that is a label row, a header row or a signature row is
\* discarded (no totals, no item, the item counter as it was) even if it
\* holds the totals phrase; any other row that holds the totals phrase goes
\* to the totals builder and yields no item; only a row of none of the
\* four classes reaches the item builder.
C15_RowPriority ==
    Stepped =>
        LET r == out_step[1]
        IN  /\ Discardable =>
                /\ r.branch = "skip"
                /\ r.totals = <<>> /\ r.item = <<>>
                /\ r.item_counter = in_counter
            /\ (~Discardable /\ _is_totals_row(in_row)) =>
                /\ r.branch = "totals"
                /\ r.totals = <<_parse_totals_row(in_row)>>
                /\ r.item = <<>>
                /\ r.item_counter = in_counter
            /\ r.branch = "data" <=> (~Discardable /\ ~_is_totals_row(in_row))
            /\ r.item # <<>> => r.branch = "data"

\* a signature row that also holds the totals phrase, a product code and
\* amounts: discarded
C15_Witness ==
    /\ Stepped
    /\ _is_signature_row(in_row)
    /\ _is_totals_row(in_row)
    /\ _parse_line_item(in_row, 1) # <<>>
    /\ _parse_totals_row(in_row) # DefaultTotals
    /\ out_step[1].branch = "skip"
    /\ out_step[1].totals = <<>>
    /\ out_step[1].item = <<>>

----------------------------------------------------------------------------
(* Properties of the page loop of parse_upd (checked under Spec).          *)

\* the item parse_upd holds for the accepted row at position k
ItemOfRow(k) == all_items[Rank(k)]

\* the items so far are those of the accepted rows of the pages visited,
\* in page-then-row order
ItemsInPageOrder ==
    /\ Len(all_items) = Cardinality(AcceptedSoFar)
    /\ \A k \in AcceptedSoFar :
           <<ItemOfRow(k)>> = ParsedItem[rows[k], Rank(k) - 1]

\* one step of the loop visits the next page and appends to the items
NextPageStep ==
    pg_idx' # pg_idx =>
        /\ pg_idx' = pg_idx + 1
        /\ pg_idx' <= page_count
        /\ Len(all_items') >= Len(all_items)
        /\ SubSeq(all_items', 1, Len(all_items)) = all_items

\* C16 as stated: the pages are visited in strictly increasing order; the
\* header extractor runs exactly once, on the first page only, and the
\* transfer-section extractor exactly once, on the last page only; item
\* extraction runs on every page and appends after the items of earlier
\* pages.
C16_Original ==
    /\ [][NextPageStep]_vars
    /\ [](ItemsInPageOrder)
    /\ [](pc # "pages" =>
             /\ pg_idx = page_count
             /\ header_runs = <<1>>
             /\ transfer_runs = <<page_count>>)

\* C16, amended: as stated for a document of at least one page; in a
\* document without pages the loop body never runs, so neither extractor
\* runs and no item is extracted.
C16_PageOrder ==
    /\ [][NextPageStep]_vars
    /\ [](ItemsInPageOrder)
    /\ [](header_runs = IF pg_idx >= 1 THEN <<1>> ELSE <<>>)
    /\ [](transfer_runs = IF page_count >= 1 /\ pg_idx = page_count
                          THEN <<page_count>> ELSE <<>>)
    /\ [](pc # "pages" =>
             /\ pg_idx = page_count
             /\ page_count >= 1 =>
                    header_runs = <<1>> /\ transfer_runs = <<page_count>>
             /\ page_count = 0 =>
                    header_runs = <<>> /\ transfer_runs = <<>>
                        /\ all_items = <<>>)

\* a two-page document with an item on each page, both pages visited: the
\* header extractor ran on page 1, the transfer extractor on page 2, and
\* the item of page 2 follows that of page 1
C16_Witness ==
    /\ page_count = 2
    /\ pg_idx = 2
    /\ Len(rows) = 2
    /\ page_of = <<1, 2>>
    /\ rows[1] = "numbered_2" /\ rows[2] = "numbered"
    /\ header_runs = <<1>>
    /\ transfer_runs = <<2>>
    /\ Len(all_items) = 2
    /\ all_items[1].row_number = 2
    /\ all_items[2].row_number = 1

\* the rows of the whole document that yield an item
AllAccepted == {k \in 1..Len(rows) : AcceptedRow[rows[k]]}

\* doc.items is the complete item list: the items of the accepted rows of
\* every page, in page-then-row order
CompleteItems ==
    /\ pg_idx = page_count
    /\ doc_items = all_items
    /\ Len(doc_items) = Cardinality(AllAccepted)
    /\ ItemsInPageOrder

\* C17: VAT-mode detection runs only after the items of all pages have
\* been accumulated and sees the complete ordered item list; validation
\* runs only after detection, over the same items, the final totals and
\* the detected VATInfo; while pages remain, neither has run.
C17_DetectThenValidate ==
    /\ pc = "pages" =>
           doc_vat = DefaultVATInfo /\ doc_validation = DefaultValidationResult
    /\ pc = "detect" =>
           /\ CompleteItems
           /\ doc_vat = DefaultVATInfo
           /\ doc_validation = DefaultValidationResult
    /\ pc = "validate" =>
           /\ CompleteItems
           /\ doc_vat = _detect_vat_mode(doc_items)
           /\ doc_validation = DefaultValidationResult
    /\ pc = "done" =>
           /\ CompleteItems
           /\ doc_vat = _detect_vat_mode(doc_items)
           /\ doc_totals = IF final_totals # <<>> THEN final_totals[1]
                           ELSE DefaultTotals
           /\ doc_validation = _validate(doc_items, doc_totals, doc_vat)
    /\ pc \in {"pages", "detect", "validate", "done"}

\* a two-page document with an item on each page and a totals row, parsed
\* to the end: the detector saw both items, and the validator compared
\* their sums with the totals
C17_Witness ==
    /\ pc = "done"
    /\ page_count = 2
    /\ page_of = <<1, 2, 2>>
    /\ Len(doc_items) = 2
    /\ doc_items[1].vat_rate_percent > 0 /\ doc_items[2].vat_rate_percent > 0
    /\ doc_vat.vat_mode = "ontop"
    /\ doc_vat.detection_reason = <<"ontop_all", 2>>
    /\ doc_totals # DefaultTotals
    /\ doc_validation.errors = <<>>

----------------------------------------------------------------------------
(* Properties of the end of parse_upd (checked under SpecVat).             *)

\* what parse_upd extracted before detection: the items, the totals and the
\* bookkeeping of the page loop
Extracted ==
    <<doc_items, doc_totals, all_items, final_totals, header_runs,
      transfer_runs, page_count>>

\* the detector and the validator, each going from its call to its return
\* and leaving what was extracted as it was
ReturnsIntact ==
    /\ pc = "detect" => pc' = "validate" /\ doc_validation' = doc_validation
    /\ pc = "validate" => pc' = "done" /\ doc_vat' = doc_vat
    /\ Extracted' = Extracted

\* C18: for any items and totals, _detect_vat_mode and _validate complete
\* and return a result, they leave the items, the totals and everything
\* else extracted unchanged, and parse_upd returns the document whether
\* is_valid is true or false, the inconsistencies being listed in it.
C18_NeverAborts ==
    /\ [](pc = "detect" => ENABLED Detect)
    /\ [](pc = "validate" => ENABLED Validate)
    /\ [][ReturnsIntact]_vars
    /\ [](pc = "done" =>
             /\ doc_vat.vat_mode \in {"none", "ontop", "included"}
             /\ doc_validation.is_valid \in BOOLEAN
             /\ ~doc_validation.is_valid => doc_validation.errors # <<>>)

\* a document whose three sums all disagree with the declared totals and
\* whose items disagree with themselves: returned, not valid, with its two
\* items and its totals as extracted
C18_Witness ==
    /\ pc = "done"
    /\ ~doc_validation.is_valid
    /\ Len(doc_validation.errors) = 3
    /\ doc_validation.warnings # <<>>
    /\ Len(doc_items) = 2
    /\ doc_totals = Totals(205, 45, 245)

----------------------------------------------------------------------------
(* Properties of _parse_decimal (checked under SpecDecimal).               *)

\* in_text is missing, empty, blank or a placeholder token between blanks
PlaceholderText ==
    \/ in_text = None
    \/ \E a, b \in 0..Len(in_text) :
           /\ a + b <= Len(in_text)
           /\ \A i \in 1..a : in_text[i] \in {" ", "NBSP"}
           /\ \A i \in (Len(in_text) - b + 1)..Len(in_text) :
                  in_text[i] \in {" ", "NBSP"}
           /\ SubSeq(in_text, a + 1, Len(in_text) - b)
                  \in { <<"-", "-">>, <<"-">>, <<>>, <<"KHA">>, <<"X">> }

\* in_text without its spaces, no-break spaces and every other character
\* that is not a digit, a dot, a comma or a minus, each comma read as a dot
Residue ==
    LET kept == SelectSeq(in_text,
                          LAMBDA c : c \in Digits \cup {".", ",", "-"})
    IN  [i \in 1..Len(kept) |-> IF kept[i] = "," THEN "." ELSE kept[i]]

\* digits with at most one dot among or around them
UnsignedNumeral(u) ==
    /\ \E i \in 1..Len(u) : u[i] \in Digits
    /\ \A i \in 1..Len(u) : u[i] \in Digits \cup {"."}
    /\ \A i, j \in 1..Len(u) : (u[i] = "." /\ u[j] = ".") => i = j

\* the value (in hundredths) the conversion of the residue gives, or
\* <<>> when the conversion fails
Converted ==
    LET r == Residue
        u == IF r # <<>> /\ r[1] = "-" THEN Tail(r) ELSE r
    IN  IF ~UnsignedNumeral(u) THEN <<>>
        ELSE IF r[1] = "-" THEN <<0 - NumeralValue(u)>>
        ELSE <<NumeralValue(u)>>

\* C19: _parse_decimal never raises, for any text and for a missing one: a
\* placeholder token or an empty text gives zero; any other text gives the
\* value of its residue (spaces, no-break spaces and all characters but
\* digits, dot and minus removed, the comma read as the decimal separator),
\* or zero when that conversion fails.
C19_NeverRaises ==
    /\ pc \in {"call", "returned"}
    /\ pc = "returned" =>
           /\ Len(out_dec) = 1
           /\ out_dec[1] = IF PlaceholderText \/ Converted = <<>> THEN 0
                           ELSE Converted[1]

\* "a-1," : the letter goes, the comma is the separator, the value is -1
C19_Witness ==
    /\ pc = "returned"
    /\ in_text = <<"a", "-", "1", ",">>
    /\ out_dec = <<0 - 100>>

----------------------------------------------------------------------------
(* Properties of the totals of a document (checked under Spec).            *)

\* the totals rows of the pages visited so far, as positions in rows
TotalsRowsSoFar ==
    {k \in 1..Len(rows) : page_of[k] <= pg_idx /\ RowClass[rows[k]] = "totals"}

\* the last of them in page-then-row order
LastTotalsRow == CHOOSE k \in TotalsRowsSoFar : \A j \in TotalsRowsSoFar : j <= k

\* C20: totals capture is last-wins: the totals held are those built from
\* the last totals row, in page-then-row order, of the pages visited, even
\* when its values are all zero, and after all pages the document's Totals
\* are those, or the all-zero default if no page holds a totals row.
C20_LastTotalsWin ==
    /\ final_totals = IF TotalsRowsSoFar = {} THEN <<>>
                      ELSE <<ParsedTotals[rows[LastTotalsRow]]>>
    /\ pc # "pages" =>
           /\ pg_idx = page_count
           /\ doc_totals = IF TotalsRowsSoFar = {} THEN DefaultTotals
                           ELSE ParsedTotals[rows[LastTotalsRow]]

\* a totals row with amounts on page 1 and a totals row of placeholders on
\* page 2: the document's Totals are the zeros of the second
C20_Witness ==
    /\ pc = "done"
    /\ page_of = <<1, 1, 2>>
    /\ rows = <<"numbered", "totals", "totals_zero">>
    /\ ParsedTotals["totals"] = Totals(300, 60, 360)
    /\ final_totals = <<Totals(0, 0, 0)>>
    /\ doc_totals = Totals(0, 0, 0)

====
